---- MODULE Spec2Model ----
(***************************************************************************)
(* The selective-sync subfolder tree of FolderStatusModel                  *)
(* (folderstatusmodel.cpp): lazily fetched SubFolderInfo nodes, tri-state  *)
(* check-box propagation (setData), the LsColJob fetch protocol            *)
(* (canFetchMore / fetchMore / slotUpdateDirectories), the projection of   *)
(* the tree onto a selective-sync black list (createBlackList) and the     *)
(* apply/reset operations.                                                 *)
(*                                                                         *)
(* A QString is a sequence of one-character strings.  A SubFolderInfo is   *)
(* addressed by its position: <<r>> is _folders[r] and Append(a, i) is     *)
(* _subs[i] of the node at a.  The _pathIdx the code stores in a node is   *)
(* a field of its own, because the code computes it independently of the   *)
(* position.  A QModelIndex is [valid, ip, row] with ip the address of the *)
(* SubFolderInfo its internalPointer points to (Null for nullptr).         *)
(***************************************************************************)
EXTENDS Integers, Sequences, FiniteSets, Bags, TLC

\* ------------------------------------------------------------ bounds
\* SubFolderInfo objects alive at once (all trees together)
MaxNodes == 2
\* the same, in the specification of one folder's tree alone (SpecDeep)
MaxDeepNodes == 4
\* LsColJobs in flight at once (stale ones included)
MaxJobs == 2
\* entries of a folder's initial selective-sync black list
MaxBlack == 1

\* ------------------------------------------------------------ QString
Slash == "/"
\* directory names the server may report
Names == <<"a", "b">>

StartsWith(s, p) == Len(p) <= Len(s) /\ SubSeq(s, 1, Len(p)) = p

\* QString::indexOf(sub, from), 1-based here; 0 when there is none
IndexOf(s, sub, from) ==
    LET hits == {i \in from..(Len(s) - Len(sub) + 1) : SubSeq(s, i, i + Len(sub) - 1) = sub}
    IN IF hits = {} THEN 0 ELSE CHOOSE i \in hits : \A j \in hits : i <= j

RECURSIVE RemoveFrom(_, _, _)
RemoveFrom(s, sub, from) ==
    LET i == IndexOf(s, sub, from)
    IN IF i = 0 THEN s
       ELSE RemoveFrom(SubSeq(s, 1, i - 1) \o SubSeq(s, i + Len(sub), Len(s)), sub, i)

\* QString::remove(const QString &): every occurrence, left to right
Remove(s, sub) == IF sub = <<>> THEN s ELSE RemoveFrom(s, sub, 1)

\* QString::split('/', QString::SkipEmptyParts)
RECURSIVE SplitSkipEmpty(_)
SplitSkipEmpty(s) ==
    IF s = <<>> THEN <<>>
    ELSE LET i == IndexOf(s, <<Slash>>, 1)
         IN IF i = 0 THEN <<s>>
            ELSE IF i = 1 THEN SplitSkipEmpty(Tail(s))
            ELSE <<SubSeq(s, 1, i - 1)>> \o SplitSkipEmpty(SubSeq(s, i + 1, Len(s)))

Front(s) == SubSeq(s, 1, Len(s) - 1)
Last(s) == s[Len(s)]

\* ------------------------------------------------------------ the tree
Unchecked == "Unchecked"
PartiallyChecked == "PartiallyChecked"
Checked == "Checked"
CheckStates == {Unchecked, PartiallyChecked, Checked}

Null == <<>>

\* a default-constructed SubFolderInfo
DefaultInfo ==
    [pathIdx |-> <<>>, path |-> <<>>, name |-> <<>>, checked |-> Checked,
     fetched |-> FALSE, fetching |-> FALSE]

\* Folder::remoteUrl().path() of the sync folders
RemoteUrlPath == <<Slash, "w">>

InvalidIndex == [valid |-> FALSE, ip |-> Null, row |-> -1]
RootIndex(r) == [valid |-> TRUE, ip |-> Null, row |-> r]
SubIndex(a) == [valid |-> TRUE, ip |-> Front(a), row |-> Last(a)]

VARIABLES
    folders,    \* _folders and every _subs below it: address -> SubFolderInfo
    folderCount,\* FolderMan::instance()->map().count()
    blackList,  \* Folder::selectiveSyncBlackList() of each sync folder
    jobs,       \* bag of the QPersistentModelIndex of every LsColJob in flight
    dirty,      \* _dirty
    crashed,    \* the process died in undefined behaviour
    last,       \* the call that made the last step, and what it did
    account     \* the Account (account.cpp): its members and its QObjects

vars == <<folders, folderCount, blackList, jobs, dirty, crashed, last, account>>

\* _folders.count()
FoldersCount(t) == Cardinality({a \in DOMAIN t : Len(a) = 1})

\* the addresses of the _subs of the node at a
SubsOf(t, a) == {c \in DOMAIN t : Len(c) = Len(a) + 1 /\ SubSeq(c, 1, Len(a)) = a}

\* _subs.count()
SubsCount(t, a) == Cardinality(SubsOf(t, a))

\* every node below a, at any depth
DescendantsOf(t, a) == {c \in DOMAIN t : Len(c) > Len(a) /\ SubSeq(c, 1, Len(a)) = a}

\* a root that infoForIndex has filled in
Materialized(t, a) == a \in DOMAIN t /\ t[a].pathIdx # <<>>

\* _folders.resize(row + 1) and the first-use initialisation of a root
InfoForIndexEffect(t, index) ==
    IF ~index.valid \/ index.ip # Null \/ index.row >= folderCount THEN t
    ELSE LET r == index.row
             grown == [a \in DOMAIN t \cup {<<i>> : i \in 0..r} |->
                          IF a \in DOMAIN t THEN t[a] ELSE DefaultInfo]
         IN IF grown[<<r>>].pathIdx = <<>>
            THEN [grown EXCEPT ![<<r>>] =
                     [@ EXCEPT !.pathIdx = <<r>>, !.name = <<"f">>, !.path = <<Slash>>]]
            ELSE grown

\* the address infoForIndex returns (Null for a null pointer)
infoForIndex(t, index) ==
    IF ~index.valid THEN Null
    ELSE IF index.ip # Null THEN Append(index.ip, index.row)
    ELSE IF index.row >= folderCount THEN Null
    ELSE <<index.row>>

\* the indexes a view can hold: the invalid one, a row per folder, the row of
\* the add button, and one index per subfolder row
ViewIndexes(t) ==
    {InvalidIndex} \cup {RootIndex(r) : r \in 0..folderCount}
        \cup {SubIndex(a) : a \in {c \in DOMAIN t : Len(c) > 1}}

\* those of them that stand for a folder or a subfolder
NodeIndexes(t) == {index \in ViewIndexes(t) : infoForIndex(t, index) # Null}

\* ------------------------------------------------------------ setData
\* index.parent() resolved by infoForIndex: a root has no parent; a subfolder's
\* parent is looked up through the _pathIdx stored in the subfolder
ParentAddr(t, a) == IF Len(a) = 1 THEN Null ELSE Front(t[a].pathIdx)

\* foreach over parentInfo->_subs: some sibling is not Checked
HasUnchecked(t, p) == \E s \in SubsOf(t, p) : t[s].checked # Checked

\* st = [t |-> tree, ok |-> the process is alive].  ub says how a read through
\* an out-of-range _pathIdx ends: TRUE it kills the process, FALSE the garbage
\* read fails the test on the parent and the call carries on.
RECURSIVE setDataRec(_, _, _, _)
RECURSIVE setSubs(_, _, _, _, _)

\* the loops over info->_subs of the Checked and Unchecked branches, from row i
setSubs(st, a, i, checked, ub) ==
    IF ~st.ok \/ i >= SubsCount(st.t, a) THEN st
    ELSE LET c == Append(a, i)
             st1 == IF st.t[c].checked # checked
                    THEN setDataRec(st, c, checked, ub) ELSE st
         IN setSubs(st1, a, i + 1, checked, ub)

\* the parent part of the Checked branch
CheckedParent(st, a, ub) ==
    LET p == ParentAddr(st.t, a)
    IN IF p = Null THEN st
       ELSE IF p \notin DOMAIN st.t THEN [st EXCEPT !.ok = ~ub]
       ELSE IF st.t[p].checked = Checked THEN st
       ELSE IF ~HasUnchecked(st.t, p) THEN setDataRec(st, p, Checked, ub)
       ELSE IF st.t[p].checked = Unchecked THEN setDataRec(st, p, PartiallyChecked, ub)
       ELSE st

\* the parent part of the Unchecked branch
UncheckedParent(st, a, ub) ==
    LET p == ParentAddr(st.t, a)
    IN IF p = Null THEN st
       ELSE IF p \notin DOMAIN st.t THEN [st EXCEPT !.ok = ~ub]
       ELSE IF st.t[p].checked = Checked THEN setDataRec(st, p, PartiallyChecked, ub)
       ELSE st

\* the PartiallyChecked branch
PartiallyCheckedParent(st, a, ub) ==
    LET p == ParentAddr(st.t, a)
    IN IF p = Null THEN st
       ELSE IF p \notin DOMAIN st.t THEN [st EXCEPT !.ok = ~ub]
       ELSE IF st.t[p].checked # PartiallyChecked
            THEN setDataRec(st, p, PartiallyChecked, ub)
       ELSE st

\* the body of "if (info && info->_checked != checked)" for the node at a
setDataRec(st, a, checked, ub) ==
    IF ~st.ok THEN st
    ELSE LET st1 == [st EXCEPT !.t[a].checked = checked]
         IN IF checked = Checked
               THEN setSubs(CheckedParent(st1, a, ub), a, 0, Checked, ub)
            ELSE IF checked = Unchecked
               THEN setSubs(UncheckedParent(st1, a, ub), a, 0, Unchecked, ub)
            ELSE PartiallyCheckedParent(st1, a, ub)

\* setData(index, value, Qt::CheckStateRole)
setData(t, index, checked, ub) ==
    LET t0 == InfoForIndexEffect(t, index)
        info == infoForIndex(t0, index)
        st == [t |-> t0, ok |-> TRUE]
    IN IF info # Null /\ t0[info].checked # checked
       THEN setDataRec(st, info, checked, ub)
       ELSE st

\* ------------------------------------------------------------ lazy fetch
\* (a variant of the guard that does not look at _fetched)
canFetchMoreIgnoresFetched(t, index) ==
    LET t0 == InfoForIndexEffect(t, index)
        info == infoForIndex(t0, index)
    IN ~(info = Null \/ t0[info].fetching)

canFetchMore(t, index) ==
    LET t0 == InfoForIndexEffect(t, index)
        info == infoForIndex(t0, index)
    IN ~(info = Null \/ t0[info].fetched \/ t0[info].fetching)

\* (a variant of the early return that does not look at _fetching)
fetchMoreIgnoresFetching(t, index) ==
    LET t0 == InfoForIndexEffect(t, index)
        info == infoForIndex(t0, index)
    IN info = Null \/ t0[info].fetched

\* the early return of fetchMore(parent)
fetchMoreReturnsEarly(t, index) ==
    LET t0 == InfoForIndexEffect(t, index)
        info == infoForIndex(t0, index)
    IN info = Null \/ t0[info].fetched \/ t0[info].fetching

\* the tree after fetchMore(parent)
fetchMore(t, index) ==
    LET t0 == InfoForIndexEffect(t, index)
    IN IF fetchMoreReturnsEarly(t, index) THEN t0
       ELSE [t0 EXCEPT ![infoForIndex(t0, index)].fetching = TRUE]

\* the LsColJobs in flight after fetchMore(parent): the new job holds parent
\* as a QPersistentModelIndex
fetchMoreJobs(t, js, index) ==
    IF fetchMoreReturnsEarly(t, index) THEN js ELSE js (+) SetToBag({index})

\* pathToRemove of slotUpdateDirectories
PathToRemove ==
    IF RemoteUrlPath # <<>> /\ Last(RemoteUrlPath) = Slash
    THEN RemoteUrlPath ELSE Append(RemoteUrlPath, Slash)

\* the href the server reports for the directory of the node at a
HrefOf(t, a) == PathToRemove \o (IF Len(a) = 1 THEN <<>> ELSE t[a].path)

\* the subsequences of s, order kept
RECURSIVE SubSeqs(_)
SubSeqs(s) ==
    IF s = <<>> THEN {<<>>}
    ELSE LET rest == SubSeqs(Tail(s))
         IN rest \cup {<<Head(s)>> \o r : r \in rest}

\* the remote tree: a sync folder holds the directories of Names, every
\* directory below holds one, named Names[1]
DirNames(a) == IF Len(a) = 1 THEN Names ELSE <<Names[1]>>

\* what directoryListingSubfolders can carry for the node at a: the directory
\* itself first, then any of its subdirectories; a server that does not list
\* the directory first makes the remote root turn up among the entries of a
\* root folder
Listings(t, a) ==
    LET self == HrefOf(t, a)
        subdirs == [i \in 1..Len(DirNames(a)) |-> self \o <<DirNames(a)[i], Slash>>]
    IN {<<self>> \o body :
           body \in SubSeqs((IF Len(a) = 1 THEN <<PathToRemove>> ELSE <<>>) \o subdirs)}

\* (a variant of the scan that tests whether the entry is a prefix of path)
RECURSIVE BlackListScanPrefixOfPath(_, _, _, _)
BlackListScanPrefixOfPath(bl, i, path, cur) ==
    IF i > Len(bl) THEN cur
    ELSE IF bl[i] = path \/ bl[i] = <<Slash>> THEN Unchecked
    ELSE IF StartsWith(path, bl[i])
         THEN BlackListScanPrefixOfPath(bl, i + 1, path, PartiallyChecked)
    ELSE BlackListScanPrefixOfPath(bl, i + 1, path, cur)

\* (a variant of the scan that stops at the first entry that starts with path)
RECURSIVE BlackListScanFirstHit(_, _, _, _)
BlackListScanFirstHit(bl, i, path, cur) ==
    IF i > Len(bl) THEN cur
    ELSE IF bl[i] = path \/ bl[i] = <<Slash>> THEN Unchecked
    ELSE IF StartsWith(bl[i], path) THEN PartiallyChecked
    ELSE BlackListScanFirstHit(bl, i + 1, path, cur)

\* the check state lines 404-416 give a new child
RECURSIVE BlackListScan(_, _, _, _)
BlackListScan(bl, i, path, cur) ==
    IF i > Len(bl) THEN cur
    ELSE IF bl[i] = path \/ bl[i] = <<Slash>> THEN Unchecked
    ELSE IF StartsWith(bl[i], path) THEN BlackListScan(bl, i + 1, path, PartiallyChecked)
    ELSE BlackListScan(bl, i + 1, path, cur)

\* (a variant that scans the black list under an Unchecked parent too)
InitialCheckedIgnoresParent(parentChecked, bl, path) ==
    BlackListScan(bl, 1, path, DefaultInfo.checked)

InitialChecked(parentChecked, bl, path) ==
    IF parentChecked = Unchecked THEN Unchecked
    ELSE BlackListScan(bl, 1, path, DefaultInfo.checked)

\* the foreach of slotUpdateDirectories from entry k of list (i = k - 1):
\* st = [t, ok]; ub as in setData, here for last() of an empty QStringList
RECURSIVE AppendChildren(_, _, _, _, _, _)
AppendChildren(st, p, list, k, bl, ub) ==
    IF ~st.ok \/ k > Len(list) THEN st
    ELSE LET path == Remove(list[k], PathToRemove)
             parts == SplitSkipEmpty(path)
             newInfo == [pathIdx |-> Append(st.t[p].pathIdx, k - 1),
                         path |-> path,
                         name |-> IF parts = <<>> THEN <<"?">> ELSE Last(parts),
                         checked |-> InitialChecked(st.t[p].checked, bl, path),
                         fetched |-> FALSE, fetching |-> FALSE]
             c == Append(p, SubsCount(st.t, p))
         IN IF parts = <<>> /\ ub THEN [st EXCEPT !.ok = FALSE]
            ELSE IF path = <<>> THEN AppendChildren(st, p, list, k + 1, bl, ub)
            ELSE AppendChildren(
                     [st EXCEPT !.t = [a \in DOMAIN st.t \cup {c} |->
                                          IF a = c THEN newInfo ELSE st.t[a]]],
                     p, list, k + 1, bl, ub)

\* (a variant that appends the subfolders but does not set _fetched)
slotUpdateDirectoriesLeavesFetched(t, bls, idx, list_, ub) ==
    IF ~idx.valid THEN [t |-> t, ok |-> TRUE]
    ELSE LET t0 == InfoForIndexEffect(t, idx)
             p == infoForIndex(t0, idx)
             list == Tail(list_)
             t1 == [t0 EXCEPT ![p].fetching = FALSE]
         IN AppendChildren([t |-> t1, ok |-> TRUE], p, list, 1,
                           bls[Head(t1[p].pathIdx)], ub)

\* (a variant that ends the fetch of every node, not of the job's node alone)
slotUpdateDirectoriesEndsEveryFetch(t, bls, idx, list_, ub) ==
    IF ~idx.valid THEN [t |-> t, ok |-> TRUE]
    ELSE LET t0 == InfoForIndexEffect(t, idx)
             p == infoForIndex(t0, idx)
             list == Tail(list_)
             t1 == [a \in DOMAIN t0 |->
                       [t0[a] EXCEPT !.fetched = (a = p \/ @), !.fetching = FALSE]]
         IN AppendChildren([t |-> t1, ok |-> TRUE], p, list, 1,
                           bls[Head(t1[p].pathIdx)], ub)

\* slotUpdateDirectories(list_) for the job whose property holds idx
slotUpdateDirectories(t, bls, idx, list_, ub) ==
    IF ~idx.valid THEN [t |-> t, ok |-> TRUE]
    ELSE LET t0 == InfoForIndexEffect(t, idx)
             p == infoForIndex(t0, idx)
             list == Tail(list_)
             t1 == [t0 EXCEPT ![p].fetched = TRUE, ![p].fetching = FALSE]
         IN AppendChildren([t |-> t1, ok |-> TRUE], p, list, 1,
                           bls[Head(t1[p].pathIdx)], ub)

\* ------------------------------------------------------------ black list
RECURSIVE createBlackList(_, _, _)
RECURSIVE SubsBlackList(_, _, _, _)

\* (a variant of the loop that puts the result of a later row first)
SubsBlackListLaterFirst(t, a, i, old) ==
    IF i >= SubsCount(t, a) THEN <<>>
    ELSE SubsBlackList(t, a, i + 1, old) \o createBlackList(t, Append(a, i), old)

\* the loop over root->_subs from row i
SubsBlackList(t, a, i, old) ==
    IF i >= SubsCount(t, a) THEN <<>>
    ELSE createBlackList(t, Append(a, i), old) \o SubsBlackList(t, a, i + 1, old)

\* the foreach over oldBlackList that keeps what starts with path
\* (a variant that tests the path against the entry)
pathStartsWithEntries(oldBlackList, path) ==
    SelectSeq(oldBlackList, LAMBDA it : StartsWith(path, it))

oldEntriesUnder(oldBlackList, path) ==
    SelectSeq(oldBlackList, LAMBDA it : StartsWith(it, path))

\* (a variant whose Unchecked case does not return but breaks)
createBlackListUncheckedBreaks(t, root, oldBlackList) ==
    IF root = Null THEN <<>>
    ELSE IF t[root].checked = Checked THEN <<>>
    ELSE IF t[root].fetched THEN SubsBlackList(t, root, 0, oldBlackList)
    ELSE oldEntriesUnder(oldBlackList, t[root].path)

\* (a variant whose Checked case does not return but breaks)
createBlackListCheckedBreaks(t, root, oldBlackList) ==
    IF root = Null THEN <<>>
    ELSE IF t[root].checked = Unchecked THEN <<t[root].path>>
    ELSE IF t[root].fetched THEN SubsBlackList(t, root, 0, oldBlackList)
    ELSE oldEntriesUnder(oldBlackList, t[root].path)

createBlackList(t, root, oldBlackList) ==
    IF root = Null THEN <<>>
    ELSE IF t[root].checked = Unchecked THEN <<t[root].path>>
    ELSE IF t[root].checked = Checked THEN <<>>
    ELSE IF t[root].fetched THEN SubsBlackList(t, root, 0, oldBlackList)
    ELSE oldEntriesUnder(oldBlackList, t[root].path)

\* the elements of a QStringList, as toSet() gives them
ToSet(list) == {list[k] : k \in 1..Len(list)}

\* (a variant that takes the entries that left the black list only)
ChangesRemovedOnly(old, new) == ToSet(old) \ ToSet(new)

\* (oldBlackListSet - blackListSet) + (blackListSet - oldBlackListSet)
Changes(old, new) == (ToSet(old) \ ToSet(new)) \cup (ToSet(new) \ ToSet(old))

\* a call slotApplySelectiveSync makes for folder i; the foreach over changes
\* is one call that holds all of them, a QSet has no order
FolderCall(call, i, paths) == [call |-> call, folder |-> i, paths |-> paths]

\* (a variant of the loop that passes over no folder _folders holds)
PassedOverIgnoresFetched(t, i) == i >= FoldersCount(t)

\* folder i is passed over by the loop of slotApplySelectiveSync
PassedOver(t, i) == i >= FoldersCount(t) \/ ~t[<<i>>].fetched

\* the black list slotApplySelectiveSync gives folder i
AppliedBlackList(t, bls, i) ==
    IF PassedOver(t, i) THEN bls[i]
    ELSE createBlackList(t, <<i>>, bls[i])

\* the calls the body of the loop makes for folder i after it has set the
\* black list
SyncCalls(t, bls, busy, i) ==
    LET changes == Changes(bls[i], createBlackList(t, <<i>>, bls[i]))
    IN IF changes = {} THEN <<>>
       ELSE (IF i \in busy THEN <<FolderCall("slotTerminateSync", i, {})>> ELSE <<>>)
            \o <<FolderCall("avoidReadFromDbOnNextSync", i, changes),
                 FolderCall("slotScheduleSync", i, {})>>

\* the calls of the loop of slotApplySelectiveSync from folder i on
RECURSIVE ApplyCalls(_, _, _, _)
ApplyCalls(t, bls, busy, i) ==
    IF i >= folderCount THEN <<>>
    ELSE (IF PassedOver(t, i) THEN <<>> ELSE SyncCalls(t, bls, busy, i))
         \o ApplyCalls(t, bls, busy, i + 1)

\* ------------------------------------------------------------ the account
\* A QObject the account makes or is given is a number, in the order of
\* making; the null pointer is NoObject.  A QUrl is [scheme, host, port, path].
NoObject == 0

\* Theme::instance()->overrideServerUrl() of a theme that overrides nothing
EmptyUrl == [scheme |-> "", host |-> "", port |-> -1, path |-> ""]

\* Account::Account(): no manager, no credentials, SSL errors are not yet
\* failures; no certificate is approved and no error handler is installed.
\* jar is the cookie jar _am holds, jarParent its QObject parent, doomed the
\* managers deleteLater() was called on, made the objects made so far
NewAccount ==
    [url |-> EmptyUrl, am |-> NoObject, credentials |-> NoObject,
     treatSslErrorsAsFailure |-> FALSE, approvedCerts |-> <<>>,
     sslErrorHandler |-> FALSE,
     jar |-> NoObject, jarParent |-> NoObject, doomed |-> {}, made |-> 0]

\* isEqualExceptProtocol(url1, url2)
isEqualExceptProtocol(url1, url2) ==
    url1.host # url2.host \/ url1.port # url2.port \/ url1.path # url2.path

\* an AccountPtr: null, or an account with its _url and _credentials
NullAccountPtr == [null |-> TRUE]
AccountPtr(url, credentials) == [null |-> FALSE, url |-> url, credentials |-> credentials]

\* Account::changed(other, ignoreUrlProtocol); credentialsChanged is what
\* _credentials->changed(other->_credentials) reports
changed(acc, other, ignoreUrlProtocol, credentialsChanged) ==
    IF other.null THEN FALSE
    ELSE LET changes == IF ignoreUrlProtocol
                        THEN isEqualExceptProtocol(acc.url, other.url)
                        ELSE acc.url = other.url
         IN changes \/ credentialsChanged

\* _credentials->getQNAM(): a new manager; its own cookie jar is made with it
getQNAM(acc) == [am |-> acc.made + 1, jar |-> acc.made + 2, made |-> acc.made + 2]

\* _am->setCookieJar(jar): the manager holds jar and becomes its parent
setCookieJar(acc, jar) == [acc EXCEPT !.jar = jar, !.jarParent = acc.am]

\* _am->deleteLater(), if there is a manager
deleteLaterAm(acc) ==
    IF acc.am = NoObject THEN acc ELSE [acc EXCEPT !.doomed = @ \cup {acc.am}]

\* (a variant of setCredentials that leaves the new manager its own jar)
setCredentialsOwnJar(acc, cred) ==
    LET qnam == getQNAM(acc)
    IN setCookieJar([deleteLaterAm(acc) EXCEPT !.credentials = cred, !.am = qnam.am,
                                               !.made = qnam.made],
                    qnam.jar)

\* Account::setCredentials(cred)
setCredentials(acc, cred) ==
    LET jar == IF acc.am # NoObject THEN acc.jar ELSE NoObject
        qnam == getQNAM(acc)
    IN setCookieJar([deleteLaterAm(acc) EXCEPT !.credentials = cred, !.am = qnam.am,
                                               !.made = qnam.made],
                    IF jar # NoObject THEN jar ELSE qnam.jar)

\* Account::clearCookieJar(), _am being set: a new CookieJar replaces the jar
clearCookieJar(acc) ==
    setCookieJar([acc EXCEPT !.made = @ + 1], acc.made + 1)

\* (a variant of resetNetworkAccessManager that leaves the new manager its
\* own jar)
resetNetworkAccessManagerOwnJar(acc) ==
    IF acc.credentials = NoObject \/ acc.am = NoObject THEN acc
    ELSE LET qnam == getQNAM(acc)
         IN setCookieJar([deleteLaterAm(acc) EXCEPT !.am = qnam.am, !.made = qnam.made],
                         qnam.jar)

\* Account::resetNetworkAccessManager()
resetNetworkAccessManager(acc) ==
    IF acc.credentials = NoObject \/ acc.am = NoObject THEN acc
    ELSE LET qnam == getQNAM(acc)
         IN setCookieJar([deleteLaterAm(acc) EXCEPT !.am = qnam.am, !.made = qnam.made],
                         acc.jar)

\* the event loop deletes the manager m: a jar whose parent it is dies with it
deferredDelete(acc, m) ==
    IF acc.jarParent = m
    THEN [acc EXCEPT !.doomed = @ \ {m}, !.jar = NoObject, !.jarParent = NoObject]
    ELSE [acc EXCEPT !.doomed = @ \ {m}]

\* (a variant of slotHandleErrors that asks the handler after a rejection too)
slotHandleErrorsAsksAgain(acc, approves, approvedCerts) ==
    IF ~acc.sslErrorHandler THEN [acc |-> acc, calls |-> <<>>]
    ELSE IF approves
         THEN [acc |-> [acc EXCEPT !.approvedCerts = @ \o approvedCerts],
               calls |-> <<"handleErrors", "ignoreSslErrors">>]
    ELSE [acc |-> [acc EXCEPT !.treatSslErrorsAsFailure = TRUE],
          calls |-> <<"handleErrors">>]

\* Account::slotHandleErrors(reply, errors): the account after it and the
\* calls it made to the handler and to the reply; approves and approvedCerts
\* are what _sslErrorHandler->handleErrors() returns
slotHandleErrors(acc, approves, approvedCerts) ==
    IF acc.treatSslErrorsAsFailure THEN [acc |-> acc, calls |-> <<>>]
    ELSE IF ~acc.sslErrorHandler THEN [acc |-> acc, calls |-> <<>>]
    ELSE IF approves
         THEN [acc |-> [acc EXCEPT !.approvedCerts = @ \o approvedCerts],
               calls |-> <<"handleErrors", "ignoreSslErrors">>]
    ELSE [acc |-> [acc EXCEPT !.treatSslErrorsAsFailure = TRUE],
          calls |-> <<"handleErrors">>]

\* ------------------------------------------------------------ the machine
\* the black lists a folder may start with
BlackEntries == {<<Slash>>, <<"a", Slash>>, <<"a", Slash, "a", Slash>>}

RECURSIVE SeqsUpTo(_, _)
SeqsUpTo(S, n) ==
    IF n = 0 THEN {<<>>}
    ELSE LET shorter == SeqsUpTo(S, n - 1)
         IN shorter \cup {Append(q, e) : q \in shorter, e \in S}

BlackLists ==
    {q \in SeqsUpTo(BlackEntries, MaxBlack) : \A i, j \in 1..Len(q) : q[i] = q[j] => i = j}

\* how many sync folders FolderMan may know
FolderCounts == {1}

FolderIds == 0..(folderCount - 1)

EmptyTree == [a \in {} |-> DefaultInfo]

\* what last records of a call: the operation, the check state it was given
\* (setData) or the folders its loop did not pass over (slotApplySelectiveSync),
\* what the call found, and the calls it made: to the Folder objects, their
\* journals and FolderMan (slotApplySelectiveSync), to the views
\* (slotUpdateDirectories)
Call(op, value, pre) == [op |-> op, value |-> value, pre |-> pre, calls |-> <<>>]

\* the node an index stands for, as the guards of the fetch functions see it
FetchPre(t, index) ==
    LET t0 == InfoForIndexEffect(t, index)
        info == infoForIndex(t0, index)
    IN IF info = Null THEN "null"
       ELSE IF t0[info].fetched THEN "fetched"
       ELSE IF t0[info].fetching THEN "fetching"
       ELSE "ready"

\* whether setData finds another check state in the node than the one given
CheckedPre(t, index, value) ==
    LET t0 == InfoForIndexEffect(t, index)
        info == infoForIndex(t0, index)
    IN IF info = Null THEN "null"
       ELSE IF t0[info].checked # value THEN "changed" ELSE "same"

Init ==
    /\ folders = EmptyTree
    /\ folderCount \in FolderCounts
    /\ \E bl \in BlackLists : blackList = [f \in FolderIds |-> bl]
    /\ jobs = EmptyBag
    /\ dirty = FALSE
    /\ crashed = FALSE
    /\ account = NewAccount
    /\ last = Call("init", Checked, "null")

\* the process dies: its memory is gone, nothing of the model is left to see
Crash ==
    /\ crashed' = TRUE
    /\ folders' = EmptyTree
    /\ jobs' = EmptyBag
    /\ dirty' = FALSE
    /\ UNCHANGED <<folderCount, blackList>>

\* canFetchMore(parent), as rowCount and hasChildren the view's way to a root
CanFetchMore(index) ==
    /\ ~crashed
    /\ folders' = InfoForIndexEffect(folders, index)
    /\ last' = Call("canFetchMore", Checked,
                    IF canFetchMore(folders, index) THEN "true" ELSE "false")
    /\ UNCHANGED <<folderCount, blackList, jobs, dirty, crashed, account>>

\* fetchMore(parent)
FetchMore(index) ==
    /\ ~crashed
    /\ BagCardinality(fetchMoreJobs(folders, jobs, index)) <= MaxJobs
    /\ folders' = fetchMore(folders, index)
    /\ jobs' = fetchMoreJobs(folders, jobs, index)
    /\ last' = Call("fetchMore", Checked, FetchPre(folders, index))
    /\ UNCHANGED <<folderCount, blackList, dirty, crashed, account>>

\* beginInsertRows(idx, 0, list.count()) of slotUpdateDirectories, list being
\* list_ without its first entry: the rows first..last of idx are announced
beginInsertRows(list_) ==
    [call |-> "beginInsertRows", first |-> 0, last |-> Len(Tail(list_))]

\* the announcements a view has got when slotUpdateDirectories returns
rowsAnnounced(t, bls, idx, list_, ub) ==
    IF idx.valid /\ slotUpdateDirectories(t, bls, idx, list_, ub).ok
    THEN <<beginInsertRows(list_)>> ELSE <<>>

\* an LsColJob emits directoryListingSubfolders and is deleted; cap bounds the
\* nodes of the model
JobFinished(idx, list_, ub, cap) ==
    /\ ~crashed
    /\ BagIn(idx, jobs)
    /\ LET st == slotUpdateDirectories(folders, blackList, idx, list_, ub)
       IN /\ Cardinality(DOMAIN st.t) <= cap
          /\ IF st.ok
             THEN /\ folders' = st.t
                  /\ jobs' = jobs (-) SetToBag({idx})
                  /\ UNCHANGED <<folderCount, blackList, dirty, crashed>>
             ELSE Crash
    /\ last' = [Call("slotUpdateDirectories", Checked,
                     IF idx.valid THEN "valid" ELSE "invalid")
                   EXCEPT !.calls = rowsAnnounced(folders, blackList, idx, list_, ub)]
    /\ UNCHANGED account

\* an LsColJob ends in a network error: no slot of the model is connected to
\* that, the job is deleted
JobFailed(idx) ==
    /\ ~crashed
    /\ BagIn(idx, jobs)
    /\ jobs' = jobs (-) SetToBag({idx})
    /\ last' = Call("jobFailed", Checked, IF idx.valid THEN "valid" ELSE "invalid")
    /\ UNCHANGED <<folders, folderCount, blackList, dirty, crashed, account>>

\* setData(index, value, Qt::CheckStateRole)
SetData(index, value, ub) ==
    /\ ~crashed
    /\ LET st == setData(folders, index, value, ub)
       IN IF st.ok
          THEN /\ folders' = st.t
               /\ dirty' = TRUE
               /\ UNCHANGED <<folderCount, blackList, jobs, crashed>>
          ELSE Crash
    /\ last' = Call("setData", value, CheckedPre(folders, index, value))
    /\ UNCHANGED account

\* (a variant in which the jobs hold plain indexes that a reset leaves alone)
resetModelKeepsIndexes(js) == js

\* beginResetModel() ... endResetModel(): every QPersistentModelIndex becomes
\* invalid, those the jobs in flight hold too
resetModel(js) ==
    IF js = EmptyBag THEN EmptyBag
    ELSE [i \in {InvalidIndex} |-> BagCardinality(js)]

\* (a variant of setAccount that does not clear _folders)
ResetKeepsFolders(op, value, calls) ==
    /\ folders' = folders
    /\ dirty' = FALSE
    /\ jobs' = resetModel(jobs)
    /\ last' = [Call(op, value, IF dirty THEN "dirty" ELSE "clean") EXCEPT !.calls = calls]

\* setAccount(account)
Reset(op, value, calls) ==
    /\ folders' = EmptyTree
    /\ dirty' = FALSE
    /\ jobs' = resetModel(jobs)
    /\ last' = [Call(op, value, IF dirty THEN "dirty" ELSE "clean") EXCEPT !.calls = calls]

SetAccount ==
    /\ ~crashed
    /\ Reset("setAccount", Checked, <<>>)
    /\ UNCHANGED <<folderCount, blackList, crashed, account>>

\* slotApplySelectiveSync(); busy holds the folders whose isBusy() is true
SlotApplySelectiveSync(busy) ==
    /\ ~crashed
    /\ IF ~dirty
       THEN /\ last' = Call("slotApplySelectiveSync", Checked, "clean")
            /\ UNCHANGED <<folders, blackList, jobs, dirty>>
       ELSE /\ blackList' = [f \in FolderIds |-> AppliedBlackList(folders, blackList, f)]
            /\ Reset("slotApplySelectiveSync",
                     {i \in FolderIds : ~PassedOver(folders, i)},
                     ApplyCalls(folders, blackList, busy, 0))
    /\ UNCHANGED <<folderCount, crashed, account>>

\* the listings a job may bring
JobListings(idx) ==
    IF idx.valid THEN Listings(folders, infoForIndex(folders, idx))
    ELSE {<<PathToRemove>>}

\* the calls of the view and the signals of the jobs
TreeNext(cap) ==
    \/ \E index \in ViewIndexes(folders) : CanFetchMore(index)
    \/ \E index \in ViewIndexes(folders) : FetchMore(index)
    \/ \E idx \in BagToSet(jobs), ub \in BOOLEAN :
          \E list_ \in JobListings(idx) : JobFinished(idx, list_, ub, cap)
    \/ \E idx \in BagToSet(jobs) : JobFailed(idx)
    \/ \E index \in NodeIndexes(folders), value \in CheckStates, ub \in BOOLEAN :
          SetData(index, value, ub)
    \/ SetAccount

Next ==
    \/ TreeNext(MaxNodes)
    \/ \E busy \in SUBSET FolderIds : SlotApplySelectiveSync(busy)

Spec == Init /\ [][Next]_vars

\* the check boxes of a larger tree alone: subfolders are fetched and boxes
\* set, no job fails and the model is not reset
NextDeep ==
    \/ \E index \in NodeIndexes(folders) : FetchMore(index)
    \/ \E idx \in BagToSet(jobs), ub \in BOOLEAN :
          \E list_ \in JobListings(idx) : JobFinished(idx, list_, ub, MaxDeepNodes)
    \/ \E index \in NodeIndexes(folders), value \in CheckStates, ub \in BOOLEAN :
          SetData(index, value, ub)

SpecDeep == Init /\ [][NextDeep]_vars

\* ------------------------------------------------------------ createBlackList alone
\* entries of the old black list createBlackList is given, at most
MaxOld == 2

\* the places of the trees createBlackList is tried on
ProjectAddrs == {<<0>>, <<0, 0>>, <<0, 1>>, <<0, 0, 0>>}

\* the path of the node at a place: "/" for the folder, else a name per level
RECURSIVE PathAt(_)
PathAt(a) ==
    IF Len(a) = 1 THEN <<Slash>>
    ELSE (IF Len(a) = 2 THEN <<>> ELSE PathAt(Front(a))) \o <<Names[Last(a) + 1], Slash>>

\* sets of places that are trees: the folder, every parent, every row before
ProjectShapes ==
    {D \in SUBSET ProjectAddrs :
        /\ <<0>> \in D
        /\ \A a \in D : Len(a) > 1 => Front(a) \in D
        /\ \A a \in D : Last(a) > 0 => Append(Front(a), Last(a) - 1) \in D}

\* the trees on these shapes, with any check state and fetched flag a node
\* can have; only a fetched node has subfolders
ProjectTrees ==
    UNION {{t \in [D -> [pathIdx : {<<>>}, path : {<<>>}, name : {<<>>},
                         checked : CheckStates, fetched : BOOLEAN,
                         fetching : {FALSE}]] :
               \A a \in D : SubsOf(t, a) # {} => t[a].fetched}
           : D \in ProjectShapes}

\* the node records filled in from the place
ProjectTree(t) ==
    [a \in DOMAIN t |->
        [t[a] EXCEPT !.pathIdx = a, !.path = PathAt(a),
                     !.name = IF Len(a) = 1 THEN <<"f">> ELSE <<Names[Last(a) + 1]>>]]

OldEntries == {<<Slash>>, <<"a", Slash>>, <<"a", Slash, "a", Slash>>, <<"b", Slash>>}

InitProject ==
    /\ \E t \in ProjectTrees : folders = ProjectTree(t)
    /\ folderCount = 1
    /\ \E old \in SeqsUpTo(OldEntries, MaxOld) : blackList = [f \in {0} |-> old]
    /\ jobs = EmptyBag
    /\ dirty = TRUE
    /\ crashed = FALSE
    /\ account = NewAccount
    /\ last = Call("init", Checked, "null")

\* createBlackList(root, oldBlackList) is called and its result kept
CreateBlackList(root) ==
    /\ last' = [op |-> "createBlackList", root |-> root,
                result |-> createBlackList(folders, root, blackList[0])]
    /\ UNCHANGED <<folders, folderCount, blackList, jobs, dirty, crashed, account>>

NextProject == \E root \in DOMAIN folders : CreateBlackList(root)

SpecProject == InitProject /\ [][NextProject]_vars

\* ------------------------------------------------------------ one listing alone
\* entries of the black list a listing is scanned against, at most
MaxScan == 2

ScanEntries == BlackEntries \cup {<<"b", Slash>>}

\* a sync folder whose check box was set and whose listing is awaited
FetchingRoot(checked) ==
    [a \in {<<0>>} |->
        [DefaultInfo EXCEPT !.pathIdx = <<0>>, !.name = <<"f">>, !.path = <<Slash>>,
                            !.checked = checked, !.fetching = TRUE]]

\* a fetched sync folder with the subfolder a/, whose check box was set and
\* whose listing is awaited
FetchingSub(checked) ==
    [a \in {<<0>>, <<0, 0>>} |->
        IF a = <<0>>
        THEN [DefaultInfo EXCEPT !.pathIdx = <<0>>, !.name = <<"f">>, !.path = <<Slash>>,
                                 !.checked = PartiallyChecked, !.fetched = TRUE]
        ELSE [DefaultInfo EXCEPT !.pathIdx = <<0, 0>>, !.name = <<Names[1]>>,
                                 !.path = <<Names[1], Slash>>,
                                 !.checked = checked, !.fetching = TRUE]]

InitListing ==
    /\ folderCount = 1
    /\ \E bl \in SeqsUpTo(ScanEntries, MaxScan) : blackList = [f \in {0} |-> bl]
    /\ \E checked \in CheckStates :
          \/ folders = FetchingRoot(checked) /\ jobs = SetToBag({RootIndex(0)})
          \/ folders = FetchingSub(checked) /\ jobs = SetToBag({SubIndex(<<0, 0>>)})
    /\ dirty = TRUE
    /\ crashed = FALSE
    /\ account = NewAccount
    /\ last = Call("init", Checked, "null")

NextListing ==
    \E idx \in BagToSet(jobs), ub \in BOOLEAN :
        \E list_ \in JobListings(idx) : JobFinished(idx, list_, ub, MaxDeepNodes)

SpecListing == InitListing /\ [][NextListing]_vars

\* ------------------------------------------------------------ fetches alone
\* a sync folder right after its listing has brought the subfolders a/ and b/
\* under the black list bl: no check box was set, nothing below is fetched
ListedRoot(bl) ==
    slotUpdateDirectories(FetchingRoot(DefaultInfo.checked), [f \in {0} |-> bl],
                          RootIndex(0),
                          <<PathToRemove, PathToRemove \o <<Names[1], Slash>>,
                            PathToRemove \o <<Names[2], Slash>>>>, FALSE).t

InitFetch ==
    /\ folderCount = 1
    /\ \E bl \in SeqsUpTo(ScanEntries, MaxScan) :
          /\ blackList = [f \in {0} |-> bl]
          /\ folders = ListedRoot(bl)
    /\ jobs = EmptyBag
    /\ dirty = FALSE
    /\ crashed = FALSE
    /\ account = NewAccount
    /\ last = Call("init", Checked, "null")

\* the subfolders are fetched, some at the same time; a job may fail
NextFetch ==
    \/ \E index \in NodeIndexes(folders) : FetchMore(index)
    \/ \E idx \in BagToSet(jobs), ub \in BOOLEAN :
          \E list_ \in JobListings(idx) : JobFinished(idx, list_, ub, MaxDeepNodes)
    \/ \E idx \in BagToSet(jobs) : JobFailed(idx)

SpecFetch == InitFetch /\ [][NextFetch]_vars

\* ------------------------------------------------------------ a selection
\* the check boxes of a listed sync folder are set and the selection is applied
NextSelect ==
    \/ \E index \in NodeIndexes(folders), value \in CheckStates, ub \in BOOLEAN :
          SetData(index, value, ub)
    \/ \E busy \in SUBSET FolderIds : SlotApplySelectiveSync(busy)

SpecSelect == InitFetch /\ [][NextSelect]_vars

\* ------------------------------------------------------------ apply alone
\* how many sync folders FolderMan knows in the specification of
\* slotApplySelectiveSync alone
ApplyFolderCounts == {2}

\* what _folders[r] can be: an element resize() made and infoForIndex never
\* filled in, a folder not fetched, a fetched folder without subfolders or
\* with the subfolder a/
ApplyRoots(r) ==
    LET root == [DefaultInfo EXCEPT !.pathIdx = <<r>>, !.name = <<"f">>, !.path = <<Slash>>]
        sub == [DefaultInfo EXCEPT !.pathIdx = <<r, 0>>, !.name = <<Names[1]>>,
                                   !.path = <<Names[1], Slash>>]
    IN {[a \in {<<r>>} |-> DefaultInfo]}
       \cup {[a \in {<<r>>} |-> [root EXCEPT !.checked = c, !.fetched = f]] :
                c \in CheckStates, f \in BOOLEAN}
       \cup {[a \in {<<r>>, <<r, 0>>} |->
                 IF a = <<r>> THEN [root EXCEPT !.checked = c, !.fetched = TRUE]
                 ELSE [sub EXCEPT !.checked = d]] :
                c \in CheckStates, d \in CheckStates}

\* the trees of n folders: _folders[0..n-1], the last one filled in
ApplyTrees(n) ==
    IF n = 0 THEN {EmptyTree}
    ELSE IF n = 1 THEN {t \in ApplyRoots(0) : t[<<0>>].pathIdx # <<>>}
    ELSE {[a \in DOMAIN t0 \cup DOMAIN t1 |-> IF a \in DOMAIN t0 THEN t0[a] ELSE t1[a]] :
             t0 \in ApplyRoots(0), t1 \in {t \in ApplyRoots(1) : t[<<1>>].pathIdx # <<>>}}

\* a check box differs from what a fetch gave it only after a setData, and
\* setData leaves the model dirty
NeverSet(t, bls) ==
    \A a \in DOMAIN t :
        t[a].checked = IF Len(a) = 1 THEN DefaultInfo.checked
                       ELSE InitialChecked(t[Front(a)].checked, bls[a[1]], t[a].path)

InitApply ==
    /\ folderCount \in ApplyFolderCounts
    /\ blackList \in [FolderIds -> BlackLists]
    /\ \E n \in 0..folderCount : folders \in ApplyTrees(n)
    /\ jobs = EmptyBag
    /\ dirty \in BOOLEAN
    /\ ~dirty => NeverSet(folders, blackList)
    /\ crashed = FALSE
    /\ account = NewAccount
    /\ last = Call("init", Checked, "null")

NextApply == \E busy \in SUBSET FolderIds : SlotApplySelectiveSync(busy)

SpecApply == InitApply /\ [][NextApply]_vars

\* ------------------------------------------------------------ the account alone
\* QObjects (managers, cookie jars) an account makes, at most
MaxObjects == 6
\* certificates in _approvedCerts, at most
MaxCerts == 2

\* what an SSL error handler can hand back as approved certificates
CertLists == SeqsUpTo({"c1", "c2"}, 1)

\* the credentials objects a caller can give the account
Credentials == {1, 2}

\* what last records of a call on the account: the operation, what it found,
\* and the calls it made to the SSL error handler and to the reply
AccountCall(op, pre, calls) == [op |-> op, pre |-> pre, calls |-> calls]

InitAccount ==
    /\ folders = EmptyTree
    /\ folderCount = 1
    /\ blackList = [f \in {0} |-> <<>>]
    /\ jobs = EmptyBag
    /\ dirty = FALSE
    /\ crashed = FALSE
    /\ account = NewAccount
    /\ last = Call("init", Checked, "null")

\* the model of the folders is not touched by a call on the account
AccountFrame == UNCHANGED <<folders, folderCount, blackList, jobs, dirty>>

\* Account::setSslErrorHandler(handler); handler says whether it is an object
SetSslErrorHandler(handler) ==
    /\ ~crashed
    /\ account' = [account EXCEPT !.sslErrorHandler = handler]
    /\ last' = AccountCall("setSslErrorHandler", "", <<>>)
    /\ AccountFrame /\ UNCHANGED crashed

\* Account::setApprovedCerts(certs)
SetApprovedCerts(certs) ==
    /\ ~crashed
    /\ account' = [account EXCEPT !.approvedCerts = certs]
    /\ last' = AccountCall("setApprovedCerts", "", <<>>)
    /\ AccountFrame /\ UNCHANGED crashed

\* Account::addApprovedCerts(certs)
AddApprovedCerts(certs) ==
    /\ ~crashed
    /\ Len(account.approvedCerts) + Len(certs) <= MaxCerts
    /\ account' = [account EXCEPT !.approvedCerts = @ \o certs]
    /\ last' = AccountCall("addApprovedCerts", "", <<>>)
    /\ AccountFrame /\ UNCHANGED crashed

\* the manager emits sslErrors for a reply: slotHandleErrors(reply, errors)
SlotHandleErrors(approves, approvedCerts) ==
    /\ ~crashed
    /\ account.am # NoObject
    /\ Len(account.approvedCerts) + Len(approvedCerts) <= MaxCerts
    /\ LET st == slotHandleErrors(account, approves, approvedCerts)
       IN /\ account' = st.acc
          /\ last' = AccountCall("slotHandleErrors",
                                 IF approves THEN "approves" ELSE "rejects", st.calls)
    /\ AccountFrame /\ UNCHANGED crashed

\* Account::setCredentials(cred), cred a new credentials object
SetCredentials(cred) ==
    /\ ~crashed
    /\ cred # account.credentials
    /\ getQNAM(account).made <= MaxObjects
    /\ account' = setCredentials(account, cred)
    /\ last' = AccountCall("setCredentials",
                           IF account.am # NoObject THEN "manager" ELSE "no manager", <<>>)
    /\ AccountFrame /\ UNCHANGED crashed

\* Account::clearCookieJar(); without a manager the call goes through a null
\* pointer
ClearCookieJar ==
    /\ ~crashed
    /\ IF account.am = NoObject
       THEN /\ crashed' = TRUE
            /\ UNCHANGED account
       ELSE /\ account.made + 1 <= MaxObjects
            /\ account' = clearCookieJar(account)
            /\ UNCHANGED crashed
    /\ last' = AccountCall("clearCookieJar",
                           IF account.am # NoObject THEN "manager" ELSE "no manager", <<>>)
    /\ AccountFrame

\* Account::resetNetworkAccessManager()
ResetNetworkAccessManager ==
    /\ ~crashed
    /\ getQNAM(account).made <= MaxObjects
    /\ account' = resetNetworkAccessManager(account)
    /\ last' = AccountCall("resetNetworkAccessManager",
                           IF account.credentials = NoObject \/ account.am = NoObject
                           THEN "unset" ELSE "set", <<>>)
    /\ AccountFrame /\ UNCHANGED crashed

\* the event loop gets to a deleteLater()
DeferredDelete(m) ==
    /\ ~crashed
    /\ m \in account.doomed
    /\ account' = deferredDelete(account, m)
    /\ last' = AccountCall("deferredDelete", "", <<>>)
    /\ AccountFrame /\ UNCHANGED crashed

NextAccount ==
    \/ \E handler \in BOOLEAN : SetSslErrorHandler(handler)
    \/ \E certs \in CertLists : SetApprovedCerts(certs)
    \/ \E certs \in CertLists : AddApprovedCerts(certs)
    \/ \E approves \in BOOLEAN, certs \in CertLists : SlotHandleErrors(approves, certs)
    \/ \E cred \in Credentials : SetCredentials(cred)
    \/ ClearCookieJar
    \/ ResetNetworkAccessManager
    \/ \E m \in account.doomed : DeferredDelete(m)

SpecAccount == InitAccount /\ [][NextAccount]_vars

\* ------------------------------------------------------------ changed alone
\* the URLs of the accounts that are compared
Urls == [scheme : {"http", "https"}, host : {"h", "g"}, port : {-1, 8080},
         path : {"", "/oc"}]

\* the accounts changed() is given: null, or an account with credentials
Others == {NullAccountPtr} \cup {AccountPtr(url, 2) : url \in Urls}

\* Account::setUrl(url)
setUrl(acc, url) == [acc EXCEPT !.url = url]

\* an account with a URL, before and after setCredentials
InitChanged ==
    /\ folders = EmptyTree
    /\ folderCount = 1
    /\ blackList = [f \in {0} |-> <<>>]
    /\ jobs = EmptyBag
    /\ dirty = FALSE
    /\ crashed = FALSE
    /\ \E url \in Urls :
          account \in {setUrl(NewAccount, url), setUrl(setCredentials(NewAccount, 1), url)}
    /\ last = Call("init", Checked, "null")

\* changed(other, ignoreUrlProtocol) is called and its result kept; without
\* credentials the call on them goes through a null pointer
Changed(other, ignoreUrlProtocol, credentialsChanged) ==
    /\ ~crashed
    /\ IF ~other.null /\ account.credentials = NoObject
       THEN /\ crashed' = TRUE
            /\ last' = AccountCall("changed", "no credentials", <<>>)
       ELSE /\ last' = [op |-> "changed", pre |-> "", other |-> other,
                        ignoreUrlProtocol |-> ignoreUrlProtocol,
                        credentialsChanged |-> credentialsChanged,
                        result |-> changed(account, other, ignoreUrlProtocol,
                                           credentialsChanged)]
            /\ UNCHANGED crashed
    /\ AccountFrame /\ UNCHANGED account

NextChanged ==
    \E other \in Others, ignoreUrlProtocol \in BOOLEAN, credentialsChanged \in BOOLEAN :
        Changed(other, ignoreUrlProtocol, credentialsChanged)

SpecChanged == InitChanged /\ [][NextChanged]_vars

\* ------------------------------------------------------------ claims
\* the step is a call setData(index, value) that returns
SetDataReturns(index, value) ==
    \E ub \in BOOLEAN : SetData(index, value, ub) /\ ~crashed'

\* the node at a and every node below it has the check state value
SubtreeIs(t, a, value) ==
    \A d \in {a} \cup DescendantsOf(t, a) : t[d].checked = value

\* C1: after setData(n, Checked) on a node n that was not Checked returns, n
\* and every descendant of n in the tree, at any depth, is Checked.
C1_CheckedReachesEveryDescendant ==
    [][\A index \in NodeIndexes(folders) :
          (CheckedPre(folders, index, Checked) = "changed"
              /\ SetDataReturns(index, Checked))
          => SubtreeIs(folders', infoForIndex(folders', index), Checked)]_vars

\* C2: after setData(n, Unchecked) on a node n that was not Unchecked returns,
\* n and every descendant of n in the tree, at any depth, is Unchecked.
C2_UncheckedReachesEveryDescendant ==
    [][\A index \in NodeIndexes(folders) :
          (CheckedPre(folders, index, Unchecked) = "changed"
              /\ SetDataReturns(index, Unchecked))
          => SubtreeIs(folders', infoForIndex(folders', index), Unchecked)]_vars

\* the check state the claim C3 gives the parent p of a leaf that was made
\* Checked: t the tree before the call, u the tree after it
LeafCheckedParent(t, u, p) ==
    IF \A c \in SubsOf(u, p) : u[c].checked = Checked THEN Checked
    ELSE IF t[p].checked = Unchecked THEN PartiallyChecked
    ELSE t[p].checked

\* C3: when a node without children, with the parent p, is toggled to
\* Checked, p ends Checked if all its children are then Checked; otherwise
\* p ends PartiallyChecked if it was Unchecked and keeps its state if it was
\* PartiallyChecked or Checked.
C3_LeafCheckedSetsParent ==
    [][\A index \in NodeIndexes(folders) :
          LET n == infoForIndex(folders, index)
          IN (Len(n) > 1 /\ SubsOf(folders, n) = {}
                 /\ CheckedPre(folders, index, Checked) = "changed"
                 /\ SetDataReturns(index, Checked))
             => folders'[Front(n)].checked = LeafCheckedParent(folders, folders', Front(n))]_vars

\* last is a call of createBlackList on a node with this check state
Projected(value) ==
    last.op = "createBlackList" /\ folders[last.root].checked = value

\* C4: createBlackList on an Unchecked node returns the one-element list of
\* the node's path, whatever its subfolders and the old black list are.
C4_UncheckedProjectsToOwnPath ==
    Projected(Unchecked) => last.result = <<folders[last.root].path>>

C4_Witness ==
    /\ Projected(Unchecked)
    /\ \E c \in SubsOf(folders, last.root) : folders[c].checked # Unchecked
    /\ blackList[0] # <<>>

\* C5: createBlackList on a node that is Checked, as every node below it,
\* returns the empty list, whatever the old black list is.
C5_AllCheckedProjectsToNothing ==
    (last.op = "createBlackList" /\ SubtreeIs(folders, last.root, Checked))
    => last.result = <<>>

C5_Witness ==
    /\ last.op = "createBlackList" /\ SubtreeIs(folders, last.root, Checked)
    /\ DescendantsOf(folders, last.root) # {}
    /\ \E i \in 1..Len(blackList[0]) : StartsWith(blackList[0][i], folders[last.root].path)

\* the entries of s that start with path, one by one from the first
RECURSIVE PrefixedEntries(_, _)
PrefixedEntries(s, path) ==
    IF s = <<>> THEN <<>>
    ELSE (IF StartsWith(Head(s), path) THEN <<Head(s)>> ELSE <<>>)
             \o PrefixedEntries(Tail(s), path)

\* C6: createBlackList on a PartiallyChecked node that is not fetched
\* returns the entries of the old black list that start with the node's
\* path, in their order and unchanged, and nothing else.
C6_UnfetchedPartialKeepsOldEntries ==
    (Projected(PartiallyChecked) /\ ~folders[last.root].fetched)
    => last.result = PrefixedEntries(blackList[0], folders[last.root].path)

C6_Witness ==
    /\ Projected(PartiallyChecked) /\ ~folders[last.root].fetched
    /\ Len(last.result) = 1 /\ Len(blackList[0]) = 2

\* the node index stands for is there and neither fetched nor being fetched
NotFetchedNorFetching(t, index) ==
    LET t0 == InfoForIndexEffect(t, index)
        info == infoForIndex(t0, index)
    IN info # Null /\ ~t0[info].fetched /\ ~t0[info].fetching

\* the node index stands for is there and fetched
IsFetched(t, index) ==
    LET info == infoForIndex(t, index)
    IN info # Null /\ info \in DOMAIN t /\ t[info].fetched

\* C7: canFetchMore is true exactly for an index whose node exists and is
\* neither fetched nor being fetched, and fetchMore on a fetched node starts
\* no job and changes nothing.
C7_FetchedNodeIsNotFetchedAgain ==
    /\ [](\A index \in ViewIndexes(folders) :
             canFetchMore(folders, index) <=> NotFetchedNorFetching(folders, index))
    /\ [][last'.op = "fetchMore"
           => \A index \in ViewIndexes(folders) :
                 (IsFetched(folders, index) /\ FetchMore(index))
                 => UNCHANGED <<folders, folderCount, blackList, jobs, dirty, crashed>>]_vars

C7_Witness ==
    /\ last.op = "fetchMore" /\ last.pre = "fetched"
    /\ \E index \in ViewIndexes(folders) :
          IsFetched(folders, index) /\ ~canFetchMore(folders, index)

\* the jobs in flight whose index stands for the node at a
JobsFor(a) ==
    {idx \in BagToSet(jobs) : idx.valid /\ infoForIndex(folders, idx) = a}

\* C8: at any time a node has at most one LsColJob in flight.
C8_OneJobPerNode ==
    \A a \in DOMAIN folders :
        /\ Cardinality(JobsFor(a)) <= 1
        /\ \A idx \in JobsFor(a) : CopiesIn(idx, jobs) = 1

C8_Witness ==
    /\ last.op = "fetchMore" /\ last.pre = "fetching"
    /\ \E a \in DOMAIN folders : JobsFor(a) # {} /\ folders[a].fetching

\* C9: when the LsColJob of a node fails, the node is left not fetched and
\* not being fetched, and canFetchMore is true for it again.
C9_FailedFetchCanBeRetried ==
    [][\A idx \in BagToSet(jobs) :
          (idx.valid /\ JobFailed(idx))
          => LET n == infoForIndex(folders', idx)
             IN /\ ~folders'[n].fetched
                /\ ~folders'[n].fetching
                /\ canFetchMore(folders', idx)]_vars

\* the step resets the model: setAccount, or slotApplySelectiveSync (which
\* ends in resetFolders) on a dirty model
ResetStep == SetAccount \/ (dirty /\ \E busy \in SUBSET FolderIds : SlotApplySelectiveSync(busy))

\* C10: a reset of the model leaves every job in flight with an index that
\* is not valid, and the listing of such a job changes nothing: no node, no
\* subfolder, no flag of the rebuilt tree.
C10_StaleListingIsIgnored ==
    /\ [][(last'.op \in {"setAccount", "slotApplySelectiveSync"} /\ ResetStep)
           => /\ \A idx \in BagToSet(jobs') : ~idx.valid
              /\ BagCardinality(jobs') = BagCardinality(jobs)]_vars
    /\ [][last'.op = "slotUpdateDirectories"
           => \A idx \in BagToSet(jobs), ub \in BOOLEAN :
                 \A list_ \in JobListings(idx) :
                    (~idx.valid /\ JobFinished(idx, list_, ub, MaxNodes))
                    => UNCHANGED <<folders, folderCount, blackList, dirty, crashed>>]_vars

C10_Witness ==
    /\ last.op = "slotUpdateDirectories" /\ last.pre = "invalid"
    /\ \E a \in DOMAIN folders : folders[a].fetching

\* C11: at any time a node that is not fetched has no subfolders.
C11_UnfetchedNodeHasNoSubs ==
    \A a \in DOMAIN folders : ~folders[a].fetched => SubsOf(folders, a) = {}

C11_Witness ==
    \E a \in DOMAIN folders :
        /\ folders[a].fetched
        /\ \E c \in SubsOf(folders, a) : ~folders[c].fetched /\ SubsOf(folders, c) = {}

\* the subfolders the step appends
NewSubs == {c \in DOMAIN folders' \ DOMAIN folders : Len(c) > 1}

\* the black list of the sync folder the node at c belongs to
OwnBlackList(c) == blackList[c[1]]

\* some entry of the black list bl satisfies Test
SomeEntry(bl, Test(_)) == \E i \in 1..Len(bl) : Test(bl[i])

\* C12: a subfolder listed under a parent that is not Unchecked starts
\* Unchecked if its path is an entry of the folder's black list or "/" is
\* one, also when another entry alone would make it PartiallyChecked; it
\* starts Checked if no entry is its path, is "/" or starts with its path.
C12_BlackListedSubStartsUnchecked ==
    [][\A c \in NewSubs :
          LET bl == OwnBlackList(c)
              path == folders'[c].path
              exact == SomeEntry(bl, LAMBDA str : str = path \/ str = <<Slash>>)
              under == SomeEntry(bl, LAMBDA str : StartsWith(str, path))
          IN folders[Front(c)].checked # Unchecked
             => /\ exact => folders'[c].checked = Unchecked
                /\ (~exact /\ ~under) => folders'[c].checked = Checked]_vars

\* a black-listed subfolder was listed under a parent that is not Unchecked,
\* with an entry before its own that starts with its path, and another
\* subfolder that no entry matches
C12_Witness ==
    /\ last.op = "slotUpdateDirectories"
    /\ \E c \in DOMAIN folders :
          /\ Len(c) > 1 /\ folders[Front(c)].checked # Unchecked
          /\ folders[c].checked = Unchecked
          /\ \E i, j \in 1..Len(OwnBlackList(c)) :
                /\ i < j
                /\ OwnBlackList(c)[j] = folders[c].path
                /\ OwnBlackList(c)[i] # folders[c].path
                /\ StartsWith(OwnBlackList(c)[i], folders[c].path)
          /\ \E d \in SubsOf(folders, Front(c)) : folders[d].checked = Checked

\* the subfolder c the step appends is listed under a parent that is not
\* Unchecked, and no entry of the folder's black list is its path or "/"
ListedUnmatched(c) ==
    /\ folders[Front(c)].checked # Unchecked
    /\ ~SomeEntry(OwnBlackList(c), LAMBDA str : str = folders'[c].path \/ str = <<Slash>>)

\* C13 as stated: such a subfolder starts PartiallyChecked exactly if some
\* entry of the black list is a prefix of its path.
C13_PartialIffEntryIsPrefixOfPath ==
    [][\A c \in NewSubs :
          ListedUnmatched(c)
          => (folders'[c].checked = PartiallyChecked
                <=> SomeEntry(OwnBlackList(c),
                              LAMBDA str : StartsWith(folders'[c].path, str)))]_vars

\* C13, amended: such a subfolder starts PartiallyChecked exactly if some
\* entry of the black list starts with its path, that is, lies below it; an
\* entry that is a prefix of its path leaves it Checked.
C13_PartialIffEntryBelowPath ==
    [][\A c \in NewSubs :
          ListedUnmatched(c)
          => /\ folders'[c].checked = PartiallyChecked
                  <=> SomeEntry(OwnBlackList(c),
                                LAMBDA str : StartsWith(str, folders'[c].path))
             /\ folders'[c].checked # PartiallyChecked
                  => folders'[c].checked = Checked]_vars

\* a subfolder started PartiallyChecked under an entry below it, and one
\* started Checked although an entry is a prefix of its path
C13_Witness ==
    /\ last.op = "slotUpdateDirectories"
    /\ \E c \in DOMAIN folders :
          /\ Len(c) > 1 /\ folders[Front(c)].checked # Unchecked
          /\ \/ /\ folders[c].checked = PartiallyChecked
                /\ SomeEntry(OwnBlackList(c), LAMBDA str : StartsWith(str, folders[c].path))
                /\ ~SomeEntry(OwnBlackList(c), LAMBDA str : StartsWith(folders[c].path, str))
             \/ /\ folders[c].checked = Checked
                /\ SomeEntry(OwnBlackList(c), LAMBDA str : StartsWith(folders[c].path, str))

\* C14: every subfolder listed under an Unchecked parent starts Unchecked,
\* whatever the black list of the folder holds.
C14_SubOfUncheckedStartsUnchecked ==
    [][\A c \in NewSubs :
          folders[Front(c)].checked = Unchecked => folders'[c].checked = Unchecked]_vars

\* a subfolder that no entry of a black list with entries matches was listed
\* under an Unchecked parent
C14_Witness ==
    /\ last.op = "slotUpdateDirectories"
    /\ \E c \in DOMAIN folders :
          /\ Len(c) > 1 /\ folders[Front(c)].checked = Unchecked
          /\ folders[c].checked = Unchecked
          /\ OwnBlackList(c) # <<>>
          /\ ~SomeEntry(OwnBlackList(c),
                        LAMBDA str : str = <<Slash>> \/ StartsWith(str, folders[c].path))

\* C15: a node that is Checked when its listing arrives gets Checked
\* subfolders only, so a node set to Checked before it was fetched has no
\* subfolder that is not Checked right after the fetch.
C15_SubOfCheckedStartsChecked ==
    [][\A c \in NewSubs :
          folders[Front(c)].checked = Checked => folders'[c].checked = Checked]_vars

\* C16: setData with the check state the node already has changes the check
\* state of no node and leaves the dirty flag as it was.
C16_SameStateIsNoOp ==
    [][last'.op = "setData"
       => \A index \in NodeIndexes(folders), value \in CheckStates :
             (CheckedPre(folders, index, value) = "same" /\ SetDataReturns(index, value))
             => /\ \A a \in DOMAIN folders : folders'[a].checked = folders[a].checked
                /\ dirty' = dirty]_vars

\* the calls of the last slotApplySelectiveSync that concern folder i
CallsFor(calls, i) == {k \in 1..Len(calls) : calls[k].folder = i}

\* C17: slotApplySelectiveSync leaves alone every sync folder whose root is
\* not fetched or was never filled in: its black list stays, its sync is
\* not terminated and none is scheduled for it, whatever the other folders
\* hold.
C17_ApplyLeavesUnfetchedFolders ==
    [][last'.op = "slotApplySelectiveSync"
       => \A i \in FolderIds :
             (<<i>> \notin DOMAIN folders \/ ~folders[<<i>>].fetched)
             => /\ blackList'[i] = blackList[i]
                /\ CallsFor(last'.calls, i) = {}]_vars

\* a dirty model was applied: one folder was passed over and kept a black
\* list with entries, for another a sync was scheduled
C17_Witness ==
    /\ last.op = "slotApplySelectiveSync" /\ last.pre = "dirty"
    /\ \E i \in FolderIds \ last.value :
          blackList[i] # <<>> /\ CallsFor(last.calls, i) = {}
    /\ \E j \in last.value : CallsFor(last.calls, j) # {}

\* the names of the calls that concern folder i, in the order they were made
RECURSIVE NamesFor(_, _)
NamesFor(calls, i) ==
    IF calls = <<>> THEN <<>>
    ELSE (IF Head(calls).folder = i THEN <<Head(calls).call>> ELSE <<>>)
             \o NamesFor(Tail(calls), i)

\* the paths that are in one of the black lists old and new and not in the other
SymmetricDifference(old, new) ==
    {p \in ToSet(old) \cup ToSet(new) : ~(p \in ToSet(old) /\ p \in ToSet(new))}

\* C18: for every folder slotApplySelectiveSync processes: if the new black
\* list differs from the old one as a set of paths, a running sync is
\* terminated first, then every path of the symmetric difference is marked
\* in the journal, then a sync is scheduled; if they are the same set,
\* nothing of this happens.
C18_ApplySyncsChangedFolders ==
    [][last'.op = "slotApplySelectiveSync"
       => \A busy \in SUBSET FolderIds :
             (dirty /\ SlotApplySelectiveSync(busy))
             => \A i \in FolderIds :
                   (<<i>> \in DOMAIN folders /\ folders[<<i>>].fetched)
                   => LET diff == SymmetricDifference(blackList[i], blackList'[i])
                          calls == last'.calls
                      IN IF diff = {} THEN CallsFor(calls, i) = {}
                         ELSE /\ NamesFor(calls, i) =
                                    (IF i \in busy THEN <<"slotTerminateSync">> ELSE <<>>)
                                    \o <<"avoidReadFromDbOnNextSync", "slotScheduleSync">>
                              /\ \A k \in CallsFor(calls, i) :
                                    calls[k].call = "avoidReadFromDbOnNextSync"
                                    => calls[k].paths = diff]_vars

\* two folders were processed: the black list of one changed while it was
\* syncing, that of the other did not change
C18_Witness ==
    /\ last.op = "slotApplySelectiveSync" /\ last.pre = "dirty"
    /\ \E i \in last.value :
          /\ NamesFor(last.calls, i) =
                <<"slotTerminateSync", "avoidReadFromDbOnNextSync", "slotScheduleSync">>
          /\ blackList[i] # <<>>
    /\ \E j \in last.value : CallsFor(last.calls, j) = {} /\ blackList[j] # <<>>

\* C19 as stated: after every call of slotApplySelectiveSync no node is left
\* and the dirty flag is false.
C19_EveryApplyDiscardsTree ==
    [][last'.op = "slotApplySelectiveSync" => (folders' = EmptyTree /\ ~dirty')]_vars

\* C19, amended: after a call of slotApplySelectiveSync on a dirty model no
\* node is left and the dirty flag is false; a call on a model that is not
\* dirty returns at once: tree, black lists and flag stay as they are.
C19_DirtyApplyDiscardsTree ==
    [][last'.op = "slotApplySelectiveSync"
       => IF dirty THEN folders' = EmptyTree /\ ~dirty'
          ELSE UNCHANGED <<folders, blackList, jobs, dirty>>]_vars

\* a dirty model with nodes was applied
C19_Witness ==
    /\ last.op = "slotApplySelectiveSync" /\ last.pre = "dirty"
    /\ last.value # {}
    /\ folders = EmptyTree /\ ~dirty

\* C20: at any time the _pathIdx of every node that was filled in is the
\* node's position: the row of its folder, then the row in _subs at every
\* level down to the node, so its length is the node's depth; this also
\* after a listing with entries that were skipped.
C20_PathIdxIsPosition ==
    \A a \in DOMAIN folders : Materialized(folders, a) => folders[a].pathIdx = a

\* the ancestors of the node at a above its parent
UpperAncestors(a) == {SubSeq(a, 1, k) : k \in 1..(Len(a) - 2)}

\* C21: setData(node, Unchecked) and setData(node, PartiallyChecked) change
\* the check state of no ancestor above the node's parent, at any depth and
\* from any state.
C21_OnlyParentChangesUpward ==
    [][last'.op = "setData"
       => \A index \in NodeIndexes(folders), value \in {Unchecked, PartiallyChecked} :
             SetDataReturns(index, value)
             => \A g \in UpperAncestors(infoForIndex(folders, index)) :
                   folders'[g].checked = folders[g].checked]_vars

\* the paths of a listing without its first entry and without the remote
\* root prefix, those that are not empty, in the order of the listing
RECURSIVE KeptPaths(_)
KeptPaths(list) ==
    IF list = <<>> THEN <<>>
    ELSE LET path == Remove(Head(list), PathToRemove)
         IN (IF path = <<>> THEN <<>> ELSE <<path>>) \o KeptPaths(Tail(list))

\* C22: when the listing of a node arrives, its first entry is dropped, one
\* subfolder is appended for every other entry that is not empty without
\* the remote root prefix, in the order of the listing, and the node is left
\* fetched and not fetching.
C22_ListingAppendsSubsInOrder ==
    [][last'.op = "slotUpdateDirectories"
       => \A idx \in BagToSet(jobs), ub \in BOOLEAN :
             \A list_ \in JobListings(idx) :
                (idx.valid /\ JobFinished(idx, list_, ub, MaxDeepNodes))
                => LET n == infoForIndex(folders, idx)
                       kept == KeptPaths(Tail(list_))
                   IN /\ n \in DOMAIN folders'
                      /\ folders'[n].fetched /\ ~folders'[n].fetching
                      /\ SubsCount(folders', n) = Len(kept)
                      /\ \A k \in 1..Len(kept) :
                            /\ Append(n, k - 1) \in DOMAIN folders'
                            /\ folders'[Append(n, k - 1)].path = kept[k]]_vars

\* C23: the rows a listing announces to the views are as many as the
\* subfolders it appends to the node, for a listing of any length, one
\* without subfolders too.
C23_AnnouncedRowsAreAppendedSubs ==
    [][last'.op = "slotUpdateDirectories"
       => \A idx \in BagToSet(jobs), ub \in BOOLEAN :
             \A list_ \in JobListings(idx) :
                (idx.valid /\ JobFinished(idx, list_, ub, MaxDeepNodes) /\ ~crashed')
                => LET n == infoForIndex(folders, idx)
                       rows == last'.calls[1]
                   IN rows.last - rows.first + 1
                         = SubsCount(folders', n) - SubsCount(folders, n)]_vars

\* createBlackList of the subfolders of the node at a from row i, one after
\* the other
RECURSIVE SubsProjected(_, _, _)
SubsProjected(a, i, old) ==
    IF Append(a, i) \notin DOMAIN folders THEN <<>>
    ELSE createBlackList(folders, Append(a, i), old) \o SubsProjected(a, i + 1, old)

\* C24: createBlackList on a PartiallyChecked node that is fetched returns
\* what createBlackList returns for its subfolders with the same old black
\* list, one after the other in the order of the subfolders; no entry of the
\* old black list is copied for the node itself.
C24_FetchedPartialConcatenatesSubs ==
    (Projected(PartiallyChecked) /\ folders[last.root].fetched)
    => last.result = SubsProjected(last.root, 0, blackList[0])

\* a fetched PartiallyChecked node with two subfolders was projected to two
\* entries while the old black list holds an entry that starts with the
\* node's path and is not in the result
C24_Witness ==
    /\ Projected(PartiallyChecked) /\ folders[last.root].fetched
    /\ SubsCount(folders, last.root) = 2
    /\ Len(last.result) = 2 /\ last.result[1] # last.result[2]
    /\ \E i \in 1..Len(blackList[0]) :
          /\ StartsWith(blackList[0][i], folders[last.root].path)
          /\ blackList[0][i] \notin ToSet(last.result)

\* the tree after the listings li and lj have arrived for the jobs i and j,
\* in that order, both calls returning
AfterBoth(i, li, j, lj) ==
    slotUpdateDirectories(slotUpdateDirectories(folders, blackList, i, li, FALSE).t,
                          blackList, j, lj, FALSE).t

\* the step is the listing of the job idx arriving, and the call returns
Completes(idx) ==
    /\ last'.op = "slotUpdateDirectories" /\ ~crashed'
    /\ BagIn(idx, jobs) /\ jobs' = jobs (-) SetToBag({idx})

\* C25: fetches in flight at the same time for two different nodes are
\* independent: when the listing of one arrives, only that node gets
\* subfolders and only its _fetched and _fetching change, every other node
\* is left as it was; and the two listings arriving in either order give the
\* same tree.
C25_FetchesOfDifferentNodesAreIndependent ==
    /\ [][\A i, j \in BagToSet(jobs) :
             (i # j /\ i.valid /\ j.valid /\ Completes(i))
             => LET p == infoForIndex(folders, i)
                IN /\ DOMAIN folders \subseteq DOMAIN folders'
                   /\ \A c \in DOMAIN folders' \ DOMAIN folders : Front(c) = p
                   /\ \A n \in DOMAIN folders \ {p} : folders'[n] = folders[n]
                   /\ folders'[p] = [folders[p] EXCEPT !.fetched = folders'[p].fetched,
                                                       !.fetching = folders'[p].fetching]]_vars
    /\ [](\A i, j \in BagToSet(jobs) :
             (i # j /\ i.valid /\ j.valid)
             => \A li \in JobListings(i), lj \in JobListings(j) :
                   AfterBoth(i, li, j, lj) = AfterBoth(j, lj, i, li))

\* the listing of one subfolder has arrived and has brought it a subfolder
\* while the fetch of another subfolder is still in flight
C25_Witness ==
    /\ last.op = "slotUpdateDirectories"
    /\ \E p, q \in DOMAIN folders :
          /\ p # q /\ Len(p) > 1 /\ Len(q) > 1
          /\ folders[p].fetched /\ SubsOf(folders, p) # {}
          /\ folders[q].fetching /\ BagIn(SubIndex(q), jobs)

\* C26: in every state that setData calls and arriving listings lead to,
\* every subfolder of an Unchecked node is Unchecked.
C26_SubsOfUncheckedAreUnchecked ==
    \A a \in DOMAIN folders :
        folders[a].checked = Unchecked
        => \A c \in SubsOf(folders, a) : folders[c].checked = Unchecked

\* the tree is what the listing of sync folder 0 under its black list gave,
\* but for one setData that has given the subfolder at x another check state,
\* Checked or Unchecked
OneToggled(x) ==
    LET listed == ListedRoot(blackList[0])
    IN /\ x \in SubsOf(listed, <<0>>)
       /\ \E value \in {Checked, Unchecked} :
             /\ listed[x].checked # value
             /\ folders = setData(listed, SubIndex(x), value, FALSE).t

\* C27: when the subfolders of a sync folder were listed under the black
\* list B, then the check box of exactly one subfolder X was set to Checked
\* or to Unchecked, and then slotApplySelectiveSync runs, every entry of B
\* that is not the path of X and does not start with it is in the black list
\* the folder gets.
C27_ApplyKeepsUntouchedExclusions ==
    [][last'.op = "slotApplySelectiveSync"
       => \A x \in DOMAIN folders :
             (dirty /\ OneToggled(x))
             => \A e \in ToSet(blackList[0]) :
                   ~StartsWith(e, folders[x].path) => e \in ToSet(blackList'[0])]_vars

\* the call the last step made to the handler, and the one to the reply
Consulted(call) == "handleErrors" \in ToSet(call.calls)
Ignored(call) == "ignoreSslErrors" \in ToSet(call.calls)

\* C28: slotHandleErrors calls ignoreSslErrors on the reply only when an SSL
\* error handler is installed, no earlier call has ended in a rejection and
\* the handler approves the errors of this call; a rejection is remembered
\* for good, and after it every SSL error is left a failure and the handler
\* is not asked again; the list of approved certificates changes in
\* slotHandleErrors only when the handler approves.
C28_SslErrorsIgnoredOnlyOnApproval ==
    /\ [][last'.op = "slotHandleErrors"
          => /\ Ignored(last')
                  => /\ account.sslErrorHandler
                     /\ ~account.treatSslErrorsAsFailure
                     /\ last'.pre = "approves"
             /\ (Consulted(last') /\ ~Ignored(last'))
                  => account'.treatSslErrorsAsFailure
             /\ account.treatSslErrorsAsFailure
                  => (~Consulted(last') /\ ~Ignored(last') /\ account' = account)
             /\ ~Ignored(last')
                  => account'.approvedCerts = account.approvedCerts]_vars
    /\ [][account.treatSslErrorsAsFailure => account'.treatSslErrorsAsFailure]_vars

\* the handler has approved certificates, has rejected later, and then an
\* SSL error that it would approve was left a failure without asking it
C28_Witness ==
    /\ last.op = "slotHandleErrors" /\ last.pre = "approves"
    /\ last.calls = <<>>
    /\ account.sslErrorHandler /\ account.treatSslErrorsAsFailure
    /\ account.approvedCerts # <<>>

\* C29: changed(other, false) returns true exactly if the URLs of the two
\* accounts differ or the credentials report a change; it returns false for
\* a null other; with ignoreUrlProtocol true the URL part compares host,
\* port and path only.
C29_ChangedIffUrlOrCredentialsDiffer ==
    (last.op = "changed" /\ ~crashed)
    => IF last.other.null THEN ~last.result
       ELSE IF last.ignoreUrlProtocol
            THEN last.result <=> \/ account.url.host # last.other.url.host
                                 \/ account.url.port # last.other.url.port
                                 \/ account.url.path # last.other.url.path
                                 \/ last.credentialsChanged
       ELSE last.result <=> (account.url # last.other.url \/ last.credentialsChanged)

\* C30: the cookie jar outlives the manager: setCredentials on an account
\* that has a manager, and resetNetworkAccessManager, put a new manager in
\* its place that holds the cookie jar the old one held and is its parent;
\* resetNetworkAccessManager changes nothing when credentials or manager are
\* not set; a manager's cookie jar is replaced by clearCookieJar only.
C30_CookieJarSurvivesNewManager ==
    [][/\ (last'.op = "setCredentials" /\ account.am # NoObject)
            => /\ account'.am # account.am
               /\ account'.jar = account.jar
               /\ account'.jarParent = account'.am
       /\ last'.op = "resetNetworkAccessManager"
            => IF account.credentials = NoObject \/ account.am = NoObject
               THEN account' = account
               ELSE /\ account'.am # account.am
                    /\ account'.jar = account.jar
                    /\ account'.jarParent = account'.am
       /\ (account.am # NoObject /\ account'.jar # account.jar)
            => last'.op = "clearCookieJar"]_vars

\* the manager was replaced by setCredentials and then by
\* resetNetworkAccessManager, both replaced managers await their deletion,
\* and the jar is still the one that was made with the first of them
C30_Witness ==
    /\ last.op = "resetNetworkAccessManager" /\ last.pre = "set"
    /\ Cardinality(account.doomed) = 2
    /\ account.credentials = 2
    /\ \A m \in account.doomed : account.jar <= m + 1
    /\ account.jarParent = account.am

====
